---- MODULE Spec2Model ----
(***************************************************************************)
(* A model of ofx::Maps::TileLayer (TileLayer.cpp, shipped in              *)
(* src/libs/ofxMaps/includes/ofx/Maps/BaseTileProvider.h from line 105)    *)
(* together with the collaborators it drives: the tile loader/cache, the   *)
(* TileCoordinate value type and the QueueSorter.  The collaborators'      *)
(* sources are not part of src/; they are modelled from spec.md.           *)
(*                                                                         *)
(* Rows, columns and pixel offsets are doubles in the program.  Here they  *)
(* are fixed-point integers: a row or column r is stored as r * FP.  Every *)
(* input drawn below is a dyadic rational that FP represents exactly, so   *)
(* no rounding happens in the model that does not happen in the program.   *)
(* Zoom levels are integral in every input, so round(zoom) = zoom.         *)
(***************************************************************************)
EXTENDS Integers, Sequences, FiniteSets

(***************************************************************************)
(* The provider the layer is set up with.                                  *)
(***************************************************************************)
MinZoom == 0
MaxZoom == 2
TileWidth == 256
TileHeight == 256

\* Initial padding of the layer (constructor); no operation changes it.
PadColumn == 0
PadRow == 0

\* Fixed-point scale of a row or column: 2^12 units per tile.
FP == 2^12

(***************************************************************************)
(* Bounds of the model.                                                    *)
(***************************************************************************)
\* Number of worker threads of the loader.
MaxWorkers == 2

(***************************************************************************)
(* TileCoordinate                                                          *)
(***************************************************************************)
TileCoordinate(row, col, zoom) == [row |-> row, col |-> col, zoom |-> zoom]

\* The integral tile (row, col) of zoom level zoom.
Tile(row, col, zoom) == TileCoordinate(row * FP, col * FP, zoom)

Pow2(n) == 2^n

Min(a, b) == IF a < b THEN a ELSE b
Max(a, b) == IF a > b THEN a ELSE b

\* A variant that clamps nothing.
CLAMP_None(val, lo, hi) == val

\* The CLAMP macro: val < min ? min : (val > max ? max : val).
CLAMP(val, lo, hi) == IF val < lo THEN lo ELSE IF val > hi THEN hi ELSE val

\* std::floor and std::ceil of a fixed-point value, as an integer.
Floor(x) == x \div FP
Ceil(x) == -((-x) \div FP)

\* Rescale row and column by 2^(z - zoom).
zoomTo(c, z) ==
    IF z >= c.zoom
    THEN TileCoordinate(c.row * Pow2(z - c.zoom), c.col * Pow2(z - c.zoom), z)
    ELSE TileCoordinate(c.row \div Pow2(c.zoom - z), c.col \div Pow2(c.zoom - z), z)

\* Truncation of a fixed-point value toward zero, kept in fixed point.
Trunc(x) == IF x >= 0 THEN (x \div FP) * FP ELSE -(((-x) \div FP) * FP)

getFloored(c) == TileCoordinate(Trunc(c.row), Trunc(c.col), c.zoom)

\* Row and column brought into [0, 2^zoom).
ClampGrid(x, zoom) ==
    IF x < 0 THEN 0
    ELSE IF x >= Pow2(zoom) * FP THEN (Pow2(zoom) - 1) * FP
    ELSE x

getClamped(c) == TileCoordinate(ClampGrid(c.row, c.zoom), ClampGrid(c.col, c.zoom), c.zoom)

\* The strict order of TileCoordinate that std::set iterates in:
\* lexicographic over (zoom, row, column).
CoordLess(a, b) ==
    \/ a.zoom < b.zoom
    \/ a.zoom = b.zoom /\ a.row < b.row
    \/ a.zoom = b.zoom /\ a.row = b.row /\ a.col < b.col

\* Every tile of the provider's pyramid.
AllTiles ==
    { Tile(r, c, z) : <<r, c, z>> \in
        { t \in (0..(Pow2(MaxZoom) - 1)) \X (0..(Pow2(MaxZoom) - 1)) \X (MinZoom..MaxZoom) :
            t[1] < Pow2(t[3]) /\ t[2] < Pow2(t[3]) } }

\* The elements of a finite set of coordinates in ascending std::set order.
RECURSIVE SetToSeq(_)
SetToSeq(S) ==
    IF S = {} THEN <<>>
    ELSE LET m == CHOOSE x \in S : \A y \in S \ {x} : CoordLess(x, y)
         IN <<m>> \o SetToSeq(S \ {m})

Reverse(s) == [i \in 1..Len(s) |-> s[Len(s) + 1 - i]]

SeqRange(s) == { s[i] : i \in 1..Len(s) }

(***************************************************************************)
(* QueueSorter(center): zoom distance first, then the squared row/column   *)
(* distance from the center taken at the coordinate's zoom.                *)
(***************************************************************************)
Abs(x) == IF x < 0 THEN -x ELSE x

ZoomDistance(c, ctr) == Abs(c.zoom - ctr.zoom)

GridDistance(c, ctr) ==
    LET k == zoomTo(ctr, c.zoom)
    IN (c.row - k.row) * (c.row - k.row) + (c.col - k.col) * (c.col - k.col)

\* sorter(a, b): a goes before b.
QueueSorter(ctr, a, b) ==
    \/ ZoomDistance(a, ctr) < ZoomDistance(b, ctr)
    \/ /\ ZoomDistance(a, ctr) = ZoomDistance(b, ctr)
       /\ GridDistance(a, ctr) < GridDistance(b, ctr)

\* Every result std::sort may give for the set S under the sorter: the
\* order of equivalent elements is unspecified.
RECURSIVE SortedSeqs(_, _)
SortedSeqs(S, ctr) ==
    IF S = {} THEN { <<>> }
    ELSE UNION { { <<m>> \o t : t \in SortedSeqs(S \ {m}, ctr) } :
                 m \in { x \in S : \A y \in S : ~QueueSorter(ctr, y, x) } }

(***************************************************************************)
(* Inputs of the public operations.                                        *)
(***************************************************************************)
\* Viewport sizes in pixels handed to setWidth and setHeight.
Sizes == {0, TileWidth}

\* Viewport sizes handed to setup.  setup takes log2 of min(width, height)
\* over the tile size; only sizes whose quotient is a power of two, where
\* the logarithm is an integral zoom, are drawn.
SetupSizes == {TileWidth}

\* log2 of a power of two.
Log2(n) == CHOOSE k \in 0..16 : Pow2(k) = n

\* Centers handed to setCenter(TileCoordinate): the middle of tile (0, 0)
\* and of tile (1, 1) of zoom 1.
CenterInputs ==
    { TileCoordinate(FP \div 2, FP \div 2, 1),
      TileCoordinate(FP + FP \div 2, FP + FP \div 2, 1) }

\* The zoom-0 tile coordinate the spherical Mercator projection gives a
\* geographic coordinate: latitude 0, longitude 0 is the middle of the
\* world; the projection's north-west corner is its origin.
geoToTile(geo) ==
    IF geo = "equator_greenwich"
    THEN TileCoordinate(FP \div 2, FP \div 2, 0)
    ELSE TileCoordinate(0, 0, 0)

\* Inputs of setCenter(Geo::Coordinate, zoom).
GeoCenterInputs ==
    { <<"equator_greenwich", 0>>, <<"northwest_corner", 0>>, <<"northwest_corner", 1>> }

\* Viewports a run of fixed viewport starts from, each reached by setup,
\* setWidth, setHeight and setCenter: a view of two zoom-1 tiles, one above
\* the other; the empty viewport at a fractional and at an integral center.
Viewport(w, h, c) == [width |-> w, height |-> h, center |-> c]

ViewInputs ==
    { Viewport(TileWidth, 2 * TileHeight, TileCoordinate(FP, FP \div 2, 1)),
      Viewport(0, 0, TileCoordinate(FP \div 2, FP \div 2, 0)),
      Viewport(0, 0, TileCoordinate(FP, FP, 1)) }

\* Viewports at the provider's finest zoom and beyond the world and the
\* zoom range: one zoom-2 tile, (1, 2), seen whole; a view centered on the
\* world's north-west corner, three quarters of it outside the world; a
\* view that lies wholly outside the world; a center of zoom 3, above the
\* provider's range; a center of zoom -1, below it.
DeepInputs ==
    { Viewport(TileWidth, TileHeight, TileCoordinate(FP + FP \div 2, 2 * FP + FP \div 2, 2)),
      Viewport(2 * TileWidth, 2 * TileHeight, TileCoordinate(0, 0, 2)),
      Viewport(TileWidth, TileHeight, TileCoordinate(-2 * FP, 6 * FP, 2)),
      Viewport(TileWidth, TileHeight, TileCoordinate(FP, FP, 3)),
      Viewport(TileWidth, TileHeight, TileCoordinate(FP \div 4, FP \div 4, -1)) }

\* The scenario of the 2 x 2 world: tiles of 256 pixels, a viewport of
\* 512 x 512, the center at (1.5, 1.5) of zoom 1.
ScenarioView ==
    Viewport(2 * TileWidth, 2 * TileHeight, TileCoordinate(FP + FP \div 2, FP + FP \div 2, 1))

(***************************************************************************)
(* State                                                                   *)
(***************************************************************************)
VARIABLES
    provider,            \* _provider is set
    width,               \* _width
    height,              \* _height
    center,              \* _center
    coordsDirty,         \* _coordsDirty
    visibleCoords,       \* _visisbleCoords
    pc,                  \* position of the draw thread inside draw()
    coordinatesToDraw,   \* getVisibleCoordinates: coordinatesToDraw
    requestedCoordinates,\* getVisibleCoordinates: requestedCoordinates
    tilesToRequest,      \* getVisibleCoordinates: tilesToRequest from iter on
    started,             \* start calls issued so far by the running resolve cycle
    drawn,               \* tiles composited so far by the running draw, in order
    loopTodo,            \* getVisibleCoordinates: the coordinates the nested
                         \* loops have still to finish, the first in progress
    walk,                \* <<i>> inside the ancestor loop, its next level i;
                         \* <<>> outside it
    drawTodo,            \* draw: the coordinates from iter on
    cache,               \* loader: coordinates holding a tile
    waiting,             \* loader: fetches queued, not yet transferring
    transferring,        \* loader: fetches transferring
    pendingCached,       \* loader: workers about to deliver "tile cached"
    pendingUncached,     \* loader: workers about to deliver "tile uncached"
    life,                \* position inside ~TileLayer
    busyAtTeardown,      \* fetches were queued and transferring when ~TileLayer began
    lateEvent,           \* a notification was delivered after joinAll returned
    outOfOrder,          \* two coordinates of the visible rectangle have
                         \* completed against the order of their starts
    failed,              \* coordinates whose fetch has failed since the
                         \* collecting loops last ran
    failedBefore,        \* until cancelQueued: those whose fetch had failed
                         \* when the collecting loops ran
    skipped,             \* coordinates the running cycle's start found pending
    resolved,            \* the running draw found the dirty flag set
    disturbed            \* the cache has changed since the running collecting
                         \* loops began

layerVars == <<provider, width, height, center, coordsDirty, visibleCoords>>
drawState ==
    <<pc, coordinatesToDraw, requestedCoordinates, tilesToRequest, started, drawn,
      loopTodo, walk, drawTodo>>
drawVars == <<drawState, disturbed>>
loaderVars == <<cache, waiting, transferring, pendingCached, pendingUncached>>
histVars == <<busyAtTeardown, lateEvent, outOfOrder, failed, failedBefore, skipped, resolved>>
vars == <<layerVars, drawVars, loaderVars, life, histVars>>

(***************************************************************************)
(* TileLayer::TileLayer                                                    *)
(***************************************************************************)
Init ==
    /\ provider = FALSE
    /\ width = 0
    /\ height = 0
    /\ center = TileCoordinate(FP \div 2, FP \div 2, 0)
    /\ coordsDirty = TRUE
    /\ visibleCoords = {}
    /\ pc = "idle"
    /\ coordinatesToDraw = {}
    /\ requestedCoordinates = {}
    /\ tilesToRequest = <<>>
    /\ started = <<>>
    /\ drawn = <<>>
    /\ loopTodo = <<>>
    /\ walk = <<>>
    /\ drawTodo = <<>>
    /\ disturbed = FALSE
    /\ cache = {}
    /\ waiting = {}
    /\ transferring = {}
    /\ pendingCached = 0
    /\ pendingUncached = 0
    /\ life = "alive"
    /\ busyAtTeardown = FALSE
    /\ lateEvent = FALSE
    /\ outOfOrder = FALSE
    /\ failed = {}
    /\ failedBefore = {}
    /\ skipped = {}
    /\ resolved = FALSE

\* The caller's thread is between two calls on a live layer.
CallerIdle == pc = "idle" /\ life = "alive"

(***************************************************************************)
(* The visible rectangle of getVisibleCoordinates.                         *)
(***************************************************************************)
baseZoom == CLAMP(center.zoom, MinZoom, MaxZoom)

gridSize == Pow2(baseZoom)

layerPointToTileCoordinate(px, py) ==
    IF provider
    THEN TileCoordinate(center.row + ((2 * py - height) * FP) \div (2 * TileHeight),
                        center.col + ((2 * px - width) * FP) \div (2 * TileWidth),
                        center.zoom)
    ELSE center

topLeft == zoomTo(layerPointToTileCoordinate(0, 0), baseZoom)
topRight == zoomTo(layerPointToTileCoordinate(width, 0), baseZoom)
bottomLeft == zoomTo(layerPointToTileCoordinate(0, height), baseZoom)
bottomRight == zoomTo(layerPointToTileCoordinate(width, height), baseZoom)

minCol ==
    CLAMP(Floor(Min(Min(topLeft.col, topRight.col), Min(bottomLeft.col, bottomRight.col)))
            - PadColumn, 0, gridSize)
maxCol ==
    CLAMP(Ceil(Max(Max(topLeft.col, topRight.col), Max(bottomLeft.col, bottomRight.col)))
            + PadColumn, 0, gridSize)
minRow ==
    CLAMP(Floor(Min(Min(topLeft.row, topRight.row), Min(bottomLeft.row, bottomRight.row)))
            - PadRow, 0, gridSize)
maxRow ==
    CLAMP(Ceil(Max(Max(topLeft.row, topRight.row), Max(bottomLeft.row, bottomRight.row)))
            + PadRow, 0, gridSize)

\* A variant that starts both loops one past the minimum.
LoopCoordinates_SkipFirst ==
    { Tile(row, col, baseZoom) :
        <<row, col>> \in ((minRow + 1)..(maxRow - 1)) \X ((minCol + 1)..(maxCol - 1)) }

\* The coordinates the two nested loops visit.
LoopCoordinates ==
    { Tile(row, col, baseZoom) : <<row, col>> \in (minRow..(maxRow - 1)) \X (minCol..(maxCol - 1)) }

\* The order of the nested loops: columns outside, rows inside.
LoopLess(a, b) == a.col < b.col \/ (a.col = b.col /\ a.row < b.row)

RECURSIVE LoopOrder(_)
LoopOrder(S) ==
    IF S = {} THEN <<>>
    ELSE LET m == CHOOSE x \in S : \A y \in S \ {x} : LoopLess(x, y)
         IN <<m>> \o LoopOrder(S \ {m})

LoopSeq == LoopOrder(LoopCoordinates)

\* The coordinate the ancestor loop looks up for coord at level i.
ParentCoord(coord, i) == getClamped(getFloored(zoomTo(coord, i)))

\* A variant that puts an uncached coordinate in both sets.
VisitLoop_DrawsRequested(coord) ==
    IF coord \notin cache
    THEN [req |-> {coord}, draw |-> {coord},
          walk |-> IF coord.zoom >= MinZoom THEN <<coord.zoom>> ELSE <<>>]
    ELSE [req |-> {}, draw |-> {coord}, walk |-> <<>>]

\* A variant whose else branch draws nothing.
VisitLoop_SkipCached(coord) ==
    IF coord \notin cache
    THEN [req |-> {coord}, draw |-> {},
          walk |-> IF coord.zoom >= MinZoom THEN <<coord.zoom>> ELSE <<>>]
    ELSE [req |-> {}, draw |-> {}, walk |-> <<>>]

\* The loop body's own lookup of coord: what it adds to the request set
\* and to the draw set, and whether the ancestor loop begins.
VisitLoop(coord) ==
    IF coord \notin cache
    THEN [req |-> {coord}, draw |-> {},
          walk |-> IF coord.zoom >= MinZoom THEN <<coord.zoom>> ELSE <<>>]
    ELSE [req |-> {}, draw |-> {coord}, walk |-> <<>>]

\* A variant of the ancestor loop that finds but never draws a stand-in.
VisitWalk_NoStandIn(coord, i) ==
    IF ParentCoord(coord, i) \notin cache
    THEN [req |-> {ParentCoord(coord, i)}, draw |-> {},
          walk |-> IF i - 1 >= MinZoom THEN <<i - 1>> ELSE <<>>]
    ELSE [req |-> {}, draw |-> {}, walk |-> <<>>]

\* A variant of the ancestor loop that goes on past a cached ancestor.
VisitWalk_NoBreak(coord, i) ==
    IF ParentCoord(coord, i) \notin cache
    THEN [req |-> {ParentCoord(coord, i)}, draw |-> {},
          walk |-> IF i - 1 >= MinZoom THEN <<i - 1>> ELSE <<>>]
    ELSE [req |-> {}, draw |-> {ParentCoord(coord, i)},
          walk |-> IF i - 1 >= MinZoom THEN <<i - 1>> ELSE <<>>]

\* One pass of the ancestor loop for coord, at level i: its lookup, what
\* it adds to either set, and the level of the next pass, if there is one.
VisitWalk(coord, i) ==
    IF ParentCoord(coord, i) \notin cache
    THEN [req |-> {ParentCoord(coord, i)}, draw |-> {},
          walk |-> IF i - 1 >= MinZoom THEN <<i - 1>> ELSE <<>>]
    ELSE [req |-> {}, draw |-> {ParentCoord(coord, i)}, walk |-> <<>>]

\* Every coordinate the collecting loops may hand to _loader.getTile: the
\* coordinates of the loops and, for each, the coordinate of every level
\* of its walk.
WalkLookups(coord) == { ParentCoord(coord, i) : i \in MinZoom..coord.zoom }

Lookups == LoopCoordinates \cup UNION { WalkLookups(coord) : coord \in LoopCoordinates }

(***************************************************************************)
(* The caller's operations on the layer.                                   *)
(***************************************************************************)
\* A variant that stores the sizes before it tests the provider.
setup_NoProviderTest(p, w, h) ==
    /\ CallerIdle
    /\ width' = w
    /\ height' = h
    /\ provider' = (provider \/ p)
    /\ center' = IF p THEN zoomTo(center, Log2(Min(w, h) \div Min(TileWidth, TileHeight))) ELSE center
    /\ outOfOrder' = FALSE
    /\ UNCHANGED <<coordsDirty, visibleCoords>>
    /\ UNCHANGED <<drawVars, loaderVars, life, busyAtTeardown, lateEvent, failed, failedBefore, skipped, resolved>>

setup(p, w, h) ==
    /\ CallerIdle
    /\ IF p
       THEN /\ provider' = TRUE
            /\ width' = w
            /\ height' = h
            /\ center' = zoomTo(center, Log2(Min(w, h) \div Min(TileWidth, TileHeight)))
            /\ outOfOrder' = FALSE
            /\ UNCHANGED <<coordsDirty, visibleCoords>>
       ELSE UNCHANGED <<layerVars, outOfOrder>>
    /\ UNCHANGED <<drawVars, loaderVars, life, busyAtTeardown, lateEvent, failed, failedBefore, skipped, resolved>>

setWidth(w) ==
    /\ CallerIdle
    /\ width' = w
    /\ coordsDirty' = TRUE
    /\ outOfOrder' = FALSE
    /\ UNCHANGED <<provider, height, center, visibleCoords>>
    /\ UNCHANGED <<drawVars, loaderVars, life, busyAtTeardown, lateEvent, failed, failedBefore, skipped, resolved>>

setHeight(h) ==
    /\ CallerIdle
    /\ height' = h
    /\ coordsDirty' = TRUE
    /\ outOfOrder' = FALSE
    /\ UNCHANGED <<provider, width, center, visibleCoords>>
    /\ UNCHANGED <<drawVars, loaderVars, life, busyAtTeardown, lateEvent, failed, failedBefore, skipped, resolved>>

\* setCenter(const TileCoordinate&)
setCenter(c) ==
    /\ CallerIdle
    /\ center' = c
    /\ coordsDirty' = TRUE
    /\ outOfOrder' = FALSE
    /\ UNCHANGED <<provider, width, height, visibleCoords>>
    /\ UNCHANGED <<drawVars, loaderVars, life, busyAtTeardown, lateEvent, failed, failedBefore, skipped, resolved>>

\* setCenter(const Geo::Coordinate&, double zoom)
setCenterGeo(geo, zoom) ==
    IF provider
    THEN setCenter(zoomTo(geoToTile(geo), zoom))
    ELSE CallerIdle /\ UNCHANGED vars

(***************************************************************************)
(* The loader (BaseURITileLoader).                                         *)
(***************************************************************************)
Outstanding == waiting \cup transferring

\* The workers that are busy: each runs one transfer, or has changed the
\* cache and is about to notify the listeners of it.
BusyWorkers == Cardinality(transferring) + pendingCached + pendingUncached

\* A variant of start that queues a fetch whatever the loader holds.
LoaderStart_NoCheck(coord) == waiting \cup {coord}

\* The loader's state after start(coord, request): a fetch is queued unless
\* one is outstanding for coord (the ExistsException the caller swallows) or
\* coord is cached.
LoaderStart(coord) ==
    IF coord \in Outstanding \/ coord \in cache
    THEN waiting
    ELSE waiting \cup {coord}

\* A free worker takes a queued fetch and begins its transfer.
BeginTransfer(coord) ==
    /\ coord \in waiting
    /\ BusyWorkers < MaxWorkers
    /\ waiting' = waiting \ {coord}
    /\ transferring' = transferring \cup {coord}
    /\ UNCHANGED <<cache, pendingCached, pendingUncached>>
    /\ UNCHANGED <<layerVars, drawVars, life, histVars>>

\* The position of coord in the start calls of the latest cycle, 0 if none.
StartIndex(coord) ==
    IF coord \in SeqRange(started)
    THEN CHOOSE i \in 1..Len(started) : started[i] = coord /\ \A j \in 1..(i - 1) : started[j] # coord
    ELSE 0

\* The outstanding fetches whose start preceded that of coord in the
\* running cycle.
StartedBefore(coord) ==
    { a \in Outstanding \ {coord} :
        StartIndex(a) > 0 /\ StartIndex(coord) > 0 /\ StartIndex(a) < StartIndex(coord) }

\* A transfer succeeds: its worker puts the tile in the cache and goes on
\* to raise "tile cached".
FetchComplete(coord) ==
    /\ coord \in transferring
    /\ transferring' = transferring \ {coord}
    /\ cache' = cache \cup {coord}
    /\ pendingCached' = pendingCached + 1
    /\ outOfOrder' = (outOfOrder \/ (coord \in LoopCoordinates /\ StartedBefore(coord) \cap LoopCoordinates # {}))
    /\ disturbed' = (disturbed \/ pc = "scan")
    /\ UNCHANGED <<waiting, pendingUncached>>
    /\ UNCHANGED <<layerVars, drawState, life, busyAtTeardown, lateEvent, failed, failedBefore, skipped, resolved>>

\* A variant in which a failed transfer still leaves a tile in the cache.
FetchFail_KeepsTile(coord) ==
    /\ coord \in transferring
    /\ transferring' = transferring \ {coord}
    /\ cache' = cache \cup {coord}
    /\ pendingUncached' = pendingUncached + 1
    /\ failed' = failed \cup {coord}
    /\ UNCHANGED <<waiting, pendingCached>>
    /\ UNCHANGED <<layerVars, drawVars, life>>
    /\ UNCHANGED <<busyAtTeardown, lateEvent, outOfOrder, failedBefore, skipped, resolved>>

\* A transfer fails or ends cancelled: nothing is cached, its worker goes
\* on to raise "tile uncached".
FetchFail(coord) ==
    /\ coord \in transferring
    /\ transferring' = transferring \ {coord}
    /\ pendingUncached' = pendingUncached + 1
    /\ failed' = failed \cup {coord}
    /\ UNCHANGED <<cache, waiting, pendingCached>>
    /\ UNCHANGED <<layerVars, drawVars, life>>
    /\ UNCHANGED <<busyAtTeardown, lateEvent, outOfOrder, failedBefore, skipped, resolved>>

\* The workers are running: from construction until joinAll returns.
WorkersRunning == life \in {"alive", "joinAll"}

\* The bounded cache evicts a tile on a free worker, which goes on to raise
\* "tile uncached".
Evict(victim) ==
    /\ WorkersRunning
    /\ victim \in cache
    /\ BusyWorkers < MaxWorkers
    /\ cache' = cache \ {victim}
    /\ pendingUncached' = pendingUncached + 1
    /\ outOfOrder' = FALSE
    /\ disturbed' = (disturbed \/ pc = "scan")
    /\ UNCHANGED <<waiting, transferring, pendingCached>>
    /\ UNCHANGED <<layerVars, drawState, life, busyAtTeardown, lateEvent, failed, failedBefore, skipped, resolved>>

\* The listeners are attached from the constructor to the end of the
\* destructor.
ListenersAttached == life # "destroyed"

\* joinAll has returned.
Joined == life \in {"removeListeners", "destroyed"}

\* TileLayer::onTileCached
onTileCached ==
    /\ pendingCached > 0
    /\ pendingCached' = pendingCached - 1
    /\ coordsDirty' = IF ListenersAttached THEN TRUE ELSE coordsDirty
    /\ lateEvent' = (lateEvent \/ Joined)
    /\ UNCHANGED <<provider, width, height, center, visibleCoords>>
    /\ UNCHANGED <<cache, waiting, transferring, pendingUncached>>
    /\ UNCHANGED <<drawVars, life, busyAtTeardown, outOfOrder, failed, failedBefore, skipped, resolved>>

\* TileLayer::onTileUncached
onTileUncached ==
    /\ pendingUncached > 0
    /\ pendingUncached' = pendingUncached - 1
    /\ coordsDirty' = IF ListenersAttached THEN TRUE ELSE coordsDirty
    /\ lateEvent' = (lateEvent \/ Joined)
    /\ UNCHANGED <<provider, width, height, center, visibleCoords>>
    /\ UNCHANGED <<cache, waiting, transferring, pendingCached>>
    /\ UNCHANGED <<drawVars, life, busyAtTeardown, outOfOrder, failed, failedBefore, skipped, resolved>>

\* joinAll returns once no fetch is outstanding and no worker is busy.
joinAllReturns == Outstanding = {} /\ BusyWorkers = 0

(***************************************************************************)
(* TileLayer::draw and TileLayer::getVisibleCoordinates, step by step.     *)
(* Every call on the loader is a step of its own: each _loader.getTile of  *)
(* the collecting loops and of the compositing loop, cancelQueued, each    *)
(* start; so the loader's workers run between any two of them.             *)
(***************************************************************************)
\* The order in which the compositing loop walks _visisbleCoords: from
\* rbegin() to rend().
DrawOrder(S) == Reverse(SetToSeq(S))

\* A variant of draw() that recomputes the visible set on every call.
draw_enter_AlwaysResolve ==
    /\ CallerIdle
    /\ IF ~provider
       THEN /\ visibleCoords' = {}
            /\ coordsDirty' = FALSE
            /\ pc' = "composite"
            /\ drawTodo' = <<>>
            /\ UNCHANGED loopTodo
       ELSE /\ loopTodo' = LoopSeq
            /\ pc' = IF LoopSeq = <<>> THEN "cancelQueued" ELSE "scan"
            /\ UNCHANGED <<visibleCoords, coordsDirty, drawTodo>>
    /\ resolved' = coordsDirty
    /\ IF provider
       THEN failedBefore' = failed /\ failed' = {}
       ELSE UNCHANGED <<failed, failedBefore>>
    /\ UNCHANGED <<provider, width, height, center>>
    /\ UNCHANGED <<coordinatesToDraw, requestedCoordinates, tilesToRequest, started, drawn, walk>>
    /\ UNCHANGED <<loaderVars, life>>
    /\ UNCHANGED <<busyAtTeardown, lateEvent, outOfOrder, skipped, disturbed>>

\* draw(): the dirty test.  With the flag set, getVisibleCoordinates up to
\* the bounds of the nested loops (or its return of the empty set, without
\* a provider); with the flag clear, the start of the compositing loop.
draw_enter ==
    /\ CallerIdle
    /\ IF coordsDirty
       THEN IF ~provider
            THEN /\ visibleCoords' = {}
                 /\ coordsDirty' = FALSE
                 /\ pc' = "composite"
                 /\ drawTodo' = <<>>
                 /\ UNCHANGED loopTodo
            ELSE /\ loopTodo' = LoopSeq
                 /\ pc' = IF LoopSeq = <<>> THEN "cancelQueued" ELSE "scan"
                 /\ UNCHANGED <<visibleCoords, coordsDirty, drawTodo>>
       ELSE /\ pc' = "composite"
            /\ drawTodo' = DrawOrder(visibleCoords)
            /\ UNCHANGED <<visibleCoords, coordsDirty, loopTodo>>
    /\ resolved' = coordsDirty
    /\ IF coordsDirty /\ provider
       THEN failedBefore' = failed /\ failed' = {}
       ELSE UNCHANGED <<failed, failedBefore>>
    /\ UNCHANGED <<provider, width, height, center>>
    /\ UNCHANGED <<coordinatesToDraw, requestedCoordinates, tilesToRequest, started, drawn, walk>>
    /\ UNCHANGED <<loaderVars, life>>
    /\ UNCHANGED <<busyAtTeardown, lateEvent, outOfOrder, skipped, disturbed>>

\* What the next _loader.getTile of the collecting loops leads to: the
\* loop body's lookup of the coordinate in progress, or one pass of its
\* ancestor loop.
NextVisit ==
    IF walk = <<>>
    THEN VisitLoop(Head(loopTodo))
    ELSE VisitWalk(Head(loopTodo), walk[1])

\* One _loader.getTile of the collecting loops and the insert that
\* follows it.  After the last, the loops are left.
resolve_visit ==
    /\ pc = "scan"
    /\ requestedCoordinates' = requestedCoordinates \cup NextVisit.req
    /\ coordinatesToDraw' = coordinatesToDraw \cup NextVisit.draw
    /\ walk' = NextVisit.walk
    /\ loopTodo' = IF NextVisit.walk = <<>> THEN Tail(loopTodo) ELSE loopTodo
    /\ pc' = IF NextVisit.walk = <<>> /\ Tail(loopTodo) = <<>> THEN "cancelQueued" ELSE "scan"
    /\ UNCHANGED <<tilesToRequest, started, drawn, drawTodo, disturbed>>
    /\ UNCHANGED <<layerVars, loaderVars, life, histVars>>

\* A variant that leaves tilesToRequest in the order of the request set.
SortRequests_SetOrder(S, ctr) == { SetToSeq(S) }

\* The orders in which std::sort may leave tilesToRequest.
SortRequests(S, ctr) == SortedSeqs(S, ctr)

\* A variant whose cancelQueued also drops the transfers in progress.
resolve_cancelQueued_CancelsTransfers ==
    /\ pc = "cancelQueued"
    /\ waiting' = {}
    /\ transferring' = {}
    /\ coordsDirty' = IF Outstanding # {} THEN TRUE ELSE coordsDirty
    /\ \E s \in SortRequests(requestedCoordinates, center) : tilesToRequest' = s
    /\ requestedCoordinates' = {}
    /\ pc' = "start"
    /\ UNCHANGED <<provider, width, height, center, visibleCoords>>
    /\ UNCHANGED <<cache, pendingCached, pendingUncached>>
    /\ failedBefore' = {}
    /\ disturbed' = FALSE
    /\ UNCHANGED <<coordinatesToDraw, started, drawn, loopTodo, walk, drawTodo, life>>
    /\ UNCHANGED <<busyAtTeardown, lateEvent, outOfOrder, failed, skipped, resolved>>

\* _loader.cancelQueued(): every queued fetch is dropped, and the loader
\* raises "tile uncached" for each in the calling thread, which runs
\* onTileUncached.  Then the copy of the request set and its sort.
resolve_cancelQueued ==
    /\ pc = "cancelQueued"
    /\ waiting' = {}
    /\ coordsDirty' = IF waiting # {} THEN TRUE ELSE coordsDirty
    /\ \E s \in SortRequests(requestedCoordinates, center) : tilesToRequest' = s
    /\ requestedCoordinates' = {}
    /\ pc' = "start"
    /\ UNCHANGED <<provider, width, height, center, visibleCoords>>
    /\ UNCHANGED <<cache, transferring, pendingCached, pendingUncached>>
    /\ failedBefore' = {}
    /\ disturbed' = FALSE
    /\ UNCHANGED <<coordinatesToDraw, started, drawn, loopTodo, walk, drawTodo, life>>
    /\ UNCHANGED <<busyAtTeardown, lateEvent, outOfOrder, failed, skipped, resolved>>

\* A variant whose start loop ends at the first coordinate found pending.
resolve_start_AbortOnPending ==
    /\ pc = "start"
    /\ tilesToRequest # <<>>
    /\ waiting' = LoaderStart(Head(tilesToRequest))
    /\ started' = Append(started, Head(tilesToRequest))
    /\ tilesToRequest' = IF Head(tilesToRequest) \in Outstanding
                         THEN <<>>
                         ELSE Tail(tilesToRequest)
    /\ skipped' = IF Head(tilesToRequest) \in Outstanding
                  THEN skipped \cup {Head(tilesToRequest)}
                  ELSE skipped
    /\ UNCHANGED <<cache, transferring, pendingCached, pendingUncached>>
    /\ UNCHANGED <<layerVars, pc, coordinatesToDraw, requestedCoordinates, drawn, life>>
    /\ UNCHANGED <<loopTodo, walk, drawTodo, disturbed>>
    /\ UNCHANGED <<busyAtTeardown, lateEvent, outOfOrder, failed, failedBefore, resolved>>

\* One pass of the start loop.
resolve_start ==
    /\ pc = "start"
    /\ tilesToRequest # <<>>
    /\ waiting' = LoaderStart(Head(tilesToRequest))
    /\ started' = Append(started, Head(tilesToRequest))
    /\ tilesToRequest' = Tail(tilesToRequest)
    /\ skipped' = IF Head(tilesToRequest) \in Outstanding
                  THEN skipped \cup {Head(tilesToRequest)}
                  ELSE skipped
    /\ UNCHANGED <<cache, transferring, pendingCached, pendingUncached>>
    /\ UNCHANGED <<layerVars, pc, coordinatesToDraw, requestedCoordinates, drawn, life>>
    /\ UNCHANGED <<loopTodo, walk, drawTodo, disturbed>>
    /\ UNCHANGED <<busyAtTeardown, lateEvent, outOfOrder, failed, failedBefore, resolved>>

\* getVisibleCoordinates returns; draw() stores the set and clears the
\* flag; _fbo.begin() and the loop's iterator at rbegin().
resolve_return ==
    /\ pc = "start"
    /\ tilesToRequest = <<>>
    /\ visibleCoords' = coordinatesToDraw
    /\ coordsDirty' = FALSE
    /\ coordinatesToDraw' = {}
    /\ started' = <<>>
    /\ drawTodo' = DrawOrder(coordinatesToDraw)
    /\ pc' = "composite"
    /\ outOfOrder' = (outOfOrder /\ ~(LoopCoordinates \subseteq cache))
    /\ UNCHANGED <<provider, width, height, center>>
    /\ UNCHANGED <<requestedCoordinates, tilesToRequest, drawn, loopTodo, walk, disturbed>>
    /\ skipped' = {}
    /\ UNCHANGED <<loaderVars, life, busyAtTeardown, lateEvent, failed, failedBefore, resolved>>

\* A variant that takes every coordinate of the visible set to hold the
\* tile it held when the set was resolved.
Cached_WhenResolved(coord) == TRUE

Cached(coord) == coord \in cache

\* One pass of the compositing loop: _loader.getTile for the coordinate at
\* iter, drawn if the cache holds its tile now.  With no coordinate left,
\* the loop is left.
draw_composite ==
    /\ pc = "composite"
    /\ IF drawTodo = <<>>
       THEN /\ pc' = "blit"
            /\ UNCHANGED <<drawn, drawTodo>>
       ELSE /\ drawn' = IF Cached(Head(drawTodo)) THEN Append(drawn, Head(drawTodo)) ELSE drawn
            /\ drawTodo' = Tail(drawTodo)
            /\ pc' = IF Tail(drawTodo) = <<>> THEN "blit" ELSE "composite"
    /\ UNCHANGED <<coordinatesToDraw, requestedCoordinates, tilesToRequest, started>>
    /\ UNCHANGED <<loopTodo, walk, disturbed>>
    /\ UNCHANGED <<layerVars, loaderVars, life, histVars>>

\* _fbo.end(), _fbo.draw(x, y), and draw() returns.
draw_return ==
    /\ pc = "blit"
    /\ drawn' = <<>>
    /\ pc' = "idle"
    /\ resolved' = FALSE
    /\ UNCHANGED <<coordinatesToDraw, requestedCoordinates, tilesToRequest, started>>
    /\ UNCHANGED <<loopTodo, walk, drawTodo, disturbed>>
    /\ UNCHANGED <<layerVars, loaderVars, life>>
    /\ UNCHANGED <<busyAtTeardown, lateEvent, outOfOrder, failed, failedBefore, skipped>>

(***************************************************************************)
(* TileLayer::~TileLayer                                                   *)
(***************************************************************************)
\* _loader.cancelAll(): queued fetches are dropped, "tile uncached" raised
\* for each in the calling thread; transfers are told to stop and end on
\* their own, completed or cancelled.
dtor_cancelAll ==
    /\ CallerIdle
    /\ life' = "joinAll"
    /\ busyAtTeardown' = (waiting # {} /\ transferring # {})
    /\ waiting' = {}
    /\ coordsDirty' = IF waiting # {} THEN TRUE ELSE coordsDirty
    /\ UNCHANGED <<provider, width, height, center, visibleCoords>>
    /\ UNCHANGED <<cache, transferring, pendingCached, pendingUncached>>
    /\ UNCHANGED <<drawVars, lateEvent, outOfOrder, failed, failedBefore, skipped, resolved>>

\* A variant of the destructor that does not wait for the workers.
dtor_joinAll_NoWait ==
    /\ life = "joinAll"
    /\ life' = "removeListeners"
    /\ UNCHANGED <<layerVars, drawVars, loaderVars, histVars>>

\* _loader.joinAll()
dtor_joinAll ==
    /\ life = "joinAll"
    /\ joinAllReturns
    /\ life' = "removeListeners"
    /\ UNCHANGED <<layerVars, drawVars, loaderVars, histVars>>

\* The two ofRemoveListener calls.
dtor_removeListeners ==
    /\ life = "removeListeners"
    /\ life' = "destroyed"
    /\ UNCHANGED <<layerVars, drawVars, loaderVars, histVars>>

(***************************************************************************)
(* Specification                                                           *)
(***************************************************************************)
\* The caller changes the layer.
CallerNext ==
    \/ \E p \in BOOLEAN, w \in SetupSizes, h \in SetupSizes : setup(p, w, h)
    \/ \E w \in Sizes : setWidth(w)
    \/ \E h \in Sizes : setHeight(h)
    \/ \E c \in CenterInputs : setCenter(c)
    \/ \E g \in GeoCenterInputs : setCenterGeo(g[1], g[2])

\* The caller draws, the loader works, the caller destroys the layer.
ViewNext ==
    \/ draw_enter
    \/ resolve_visit
    \/ resolve_cancelQueued
    \/ resolve_start
    \/ resolve_return
    \/ draw_composite
    \/ draw_return
    \/ \E coord \in AllTiles : BeginTransfer(coord)
    \/ \E coord \in AllTiles : FetchComplete(coord)
    \/ \E coord \in AllTiles : FetchFail(coord)
    \/ \E victim \in AllTiles : Evict(victim)
    \/ onTileCached
    \/ onTileUncached
    \/ dtor_cancelAll
    \/ dtor_joinAll
    \/ dtor_removeListeners

Next == CallerNext \/ ViewNext

\* Every run from construction, over the inputs above.
Spec == Init /\ [][Next]_vars

\* The layer before its first draw, after setup with a provider and the
\* calls that give it the viewport v.
InitAt(v) ==
    /\ width = v.width
    /\ height = v.height
    /\ center = v.center
    /\ provider = TRUE
    /\ coordsDirty = TRUE
    /\ visibleCoords = {}
    /\ pc = "idle"
    /\ coordinatesToDraw = {}
    /\ requestedCoordinates = {}
    /\ tilesToRequest = <<>>
    /\ started = <<>>
    /\ drawn = <<>>
    /\ loopTodo = <<>>
    /\ walk = <<>>
    /\ drawTodo = <<>>
    /\ disturbed = FALSE
    /\ cache = {}
    /\ waiting = {}
    /\ transferring = {}
    /\ pendingCached = 0
    /\ pendingUncached = 0
    /\ life = "alive"
    /\ busyAtTeardown = FALSE
    /\ lateEvent = FALSE
    /\ outOfOrder = FALSE
    /\ failed = {}
    /\ failedBefore = {}
    /\ skipped = {}
    /\ resolved = FALSE

InitView == \E v \in ViewInputs : InitAt(v)

\* Every run of a layer whose viewport stays as set up.
SpecView == InitView /\ [][ViewNext]_vars

\* The caller draws and every fetch succeeds.
ScenarioNext ==
    \/ draw_enter
    \/ resolve_visit
    \/ resolve_cancelQueued
    \/ resolve_start
    \/ resolve_return
    \/ draw_composite
    \/ draw_return
    \/ \E coord \in AllTiles : BeginTransfer(coord)
    \/ \E coord \in AllTiles : FetchComplete(coord)
    \/ onTileCached

InitScenario == InitAt(ScenarioView)

\* Every run of the scenario in which no fetch fails and nothing is evicted.
SpecScenario == InitScenario /\ [][ScenarioNext]_vars

\* The caller draws; fetches succeed or fail; the cache evicts.
DeepNext ==
    \/ draw_enter
    \/ resolve_visit
    \/ resolve_cancelQueued
    \/ resolve_start
    \/ resolve_return
    \/ draw_composite
    \/ draw_return
    \/ \E coord \in AllTiles : BeginTransfer(coord)
    \/ \E coord \in AllTiles : FetchComplete(coord)
    \/ \E coord \in AllTiles : FetchFail(coord)
    \/ \E victim \in AllTiles : Evict(victim)
    \/ onTileCached
    \/ onTileUncached

InitDeep == \E v \in DeepInputs : InitAt(v)

\* Every run of a live layer at one of the viewports of DeepInputs.
SpecDeep == InitDeep /\ [][DeepNext]_vars

\* The steps of the draw thread.
DrawStep ==
    \/ draw_enter
    \/ resolve_visit
    \/ resolve_cancelQueued
    \/ resolve_start
    \/ resolve_return
    \/ draw_composite
    \/ draw_return

\* The view of two zoom-1 tiles, one above the other.
InitLive ==
    InitAt(Viewport(TileWidth, 2 * TileHeight, TileCoordinate(FP, FP \div 2, 1)))

\* The scenario's steps at that view, with draw called again and again,
\* every queued fetch taken up by a worker, every transfer succeeding and
\* every notification delivered.
SpecLive ==
    /\ InitLive
    /\ [][ScenarioNext]_vars
    /\ WF_vars(DrawStep)
    /\ WF_vars(\E coord \in AllTiles : BeginTransfer(coord))
    /\ WF_vars(\E coord \in AllTiles : FetchComplete(coord))
    /\ WF_vars(onTileCached)

(***************************************************************************)
(* Properties                                                              *)
(***************************************************************************)
\* The step in which getVisibleCoordinates leaves its collecting loops,
\* the cache having stayed as it was since they began.
ScanStep == pc # "cancelQueued" /\ pc' = "cancelQueued" /\ ~disturbed

\* The viewport's top-left and bottom-right corners at baseZoom.
ViewTopLeft ==
    zoomTo(TileCoordinate(center.row - (height * FP) \div (2 * TileHeight),
                          center.col - (width * FP) \div (2 * TileWidth),
                          center.zoom), baseZoom)
ViewBottomRight ==
    zoomTo(TileCoordinate(center.row + (height * FP) \div (2 * TileHeight),
                          center.col + (width * FP) \div (2 * TileWidth),
                          center.zoom), baseZoom)

\* t is a tile of baseZoom whose cell, grown by the padding, reaches into
\* the viewport.
IsVisible(t) ==
    /\ t \in AllTiles
    /\ t.zoom = baseZoom
    /\ t.col + FP + PadColumn * FP > ViewTopLeft.col
    /\ t.col - PadColumn * FP < ViewBottomRight.col
    /\ t.row + FP + PadRow * FP > ViewTopLeft.row
    /\ t.row - PadRow * FP < ViewBottomRight.row

\* The tile (floor(row/2), floor(col/2)) of the next coarser zoom.
ParentTile(t) == Tile((t.row \div FP) \div 2, (t.col \div FP) \div 2, t.zoom - 1)

\* C1: a visible coordinate that is not cached while its parent tile is
\* cached (the parent's zoom within the provider's range), from the
\* beginning of the collecting loops to their end, makes resolve put the
\* parent in the draw set and the coordinate itself in the request set.
C1_AncestorStandIn ==
    [][ScanStep =>
        \A t \in AllTiles :
            (IsVisible(t) /\ t \notin cache /\ t.zoom - 1 >= MinZoom /\ ParentTile(t) \in cache)
                => (ParentTile(t) \in coordinatesToDraw' /\ t \in requestedCoordinates')]_vars

C1_Witness ==
    /\ pc = "cancelQueued"
    /\ ~disturbed
    /\ \E t \in requestedCoordinates :
        /\ IsVisible(t)
        /\ t \notin cache
        /\ t.zoom - 1 >= MinZoom
        /\ ParentTile(t) \in cache
        /\ ParentTile(t) \in coordinatesToDraw

\* C2: with a provider and a viewport of width 0 and height 0, resolve
\* gives an empty draw set and hands nothing to start, whatever the center.
C2_EmptyViewport ==
    (provider /\ width = 0 /\ height = 0)
        => /\ coordinatesToDraw = {}
           /\ requestedCoordinates = {}
           /\ tilesToRequest = <<>>
           /\ started = <<>>

\* C3: every setup with a provider, setWidth, setHeight, setCenter and every
\* delivery of onTileCached or onTileUncached leaves the dirty flag set.
C3_DirtyAfterChange ==
    [][( \/ \E w \in SetupSizes, h \in SetupSizes : setup(TRUE, w, h)
         \/ \E w \in Sizes : setWidth(w)
         \/ \E h \in Sizes : setHeight(h)
         \/ \E c \in CenterInputs : setCenter(c)
         \/ provider /\ \E g \in GeoCenterInputs : setCenterGeo(g[1], g[2])
         \/ onTileCached
         \/ onTileUncached ) => coordsDirty']_vars

\* C4: a draw composites its tiles from the coarsest zoom to the finest: a
\* tile of lower zoom is never drawn after a tile of higher zoom.
C4_CoarsestFirst ==
    \A i, j \in 1..Len(drawn) : i < j => drawn[i].zoom <= drawn[j].zoom

\* C5: the loader never holds two outstanding fetches of one coordinate,
\* and no coordinate is cached while a fetch of it is outstanding.
C5_OneFetchPerCoordinate ==
    /\ waiting \cap transferring = {}
    /\ Outstanding \cap cache = {}

\* A resolve cycle is about to call start for a coordinate whose transfer
\* is running.
C5_Witness ==
    /\ pc = "start"
    /\ tilesToRequest # <<>>
    /\ Head(tilesToRequest) \in transferring
    /\ cache # {}

\* C6: while no provider is set, setup without a provider changes neither
\* sizes, center nor provider; setCenter(geo, zoom) changes neither center
\* nor dirty flag; resolve gives an empty set and calls neither cancelQueued
\* nor start; draw composites nothing.
C6_NoProviderNoOp ==
    [][~provider =>
        /\ (\E w \in SetupSizes, h \in SetupSizes : setup(FALSE, w, h))
              => UNCHANGED <<width, height, center, provider>>
        /\ (\E g \in GeoCenterInputs : setCenterGeo(g[1], g[2]))
              => UNCHANGED <<center, coordsDirty>>
        /\ draw_enter
              => (visibleCoords' = {} /\ pc' = "composite" /\ UNCHANGED <<loaderVars, started>>)
        /\ draw_composite => drawn' = <<>>]_vars

\* A draw has run on a resized layer that has no provider.
C6_Witness == ~provider /\ pc = "blit" /\ width # 0 /\ ~coordsDirty

\* C7: the destructor calls joinAll after cancelAll has emptied the queue,
\* removes the listeners after joinAll has returned, and from the return of
\* joinAll on nothing is outstanding and no event is delivered.
C7_QuietAfterJoin ==
    /\ ~lateEvent
    /\ life # "alive" => waiting = {}
    /\ Joined => (Outstanding = {} /\ pendingCached = 0 /\ pendingUncached = 0)

\* joinAll has returned in a destructor that began with fetches queued and
\* transfers running.
C7_Witness == Joined /\ busyAtTeardown

\* C8: two visible coordinates that are both cached while the collecting
\* loops run are both in the draw set resolve computes, in whichever order
\* their fetches completed.
C8_BothDrawn ==
    [][ScanStep =>
        \A a, b \in cache :
            (a # b /\ IsVisible(a) /\ IsVisible(b)) => {a, b} \subseteq coordinatesToDraw']_vars

\* Resolve has put every visible coordinate in the draw set after two of
\* them completed against the order of their starts.
C8_Witness ==
    /\ pc = "cancelQueued"
    /\ ~disturbed
    /\ outOfOrder
    /\ Cardinality(LoopCoordinates) >= 2
    /\ LoopCoordinates \subseteq coordinatesToDraw

\* The four tiles of zoom 1.
ScenarioTiles == { Tile(0, 0, 1), Tile(0, 1, 1), Tile(1, 0, 1), Tile(1, 1, 1) }

\* C9: resolve puts every coordinate of the visible rectangle in the draw
\* set if it is cached and in the request set if not; in the 512 x 512
\* scenario the four zoom-1 tiles are all visible, all requested from an
\* empty cache, and each drawn once cached.
C9_RectangleResolved ==
    [][ScanStep =>
        /\ \A t \in AllTiles :
             IsVisible(t) => IF t \in cache
                             THEN t \in coordinatesToDraw'
                             ELSE t \in requestedCoordinates'
        /\ cache = {} => ScenarioTiles \subseteq requestedCoordinates'
        /\ \A t \in ScenarioTiles : t \in cache => t \in coordinatesToDraw']_vars

\* All four tiles have completed and resolve has put them in the draw set.
C9_Witness == pc = "cancelQueued" /\ ~disturbed /\ ScenarioTiles \subseteq coordinatesToDraw

\* The order of the start calls of the running cycle: those issued, then
\* those still to issue.
StartOrder == started \o tilesToRequest

\* C10: within a resolve cycle, start is never issued for a coordinate
\* before it is issued for one strictly closer to the center.
C10_ClosestFirst ==
    pc = "start" =>
        \A i, j \in 1..Len(StartOrder) :
            i < j => ~QueueSorter(center, StartOrder[j], StartOrder[i])

\* Starts have been issued for two coordinates, the closer first, against
\* the order of the request set.
C10_Witness ==
    /\ pc = "start"
    /\ \E i, j \in 1..Len(started) :
        /\ i < j
        /\ QueueSorter(center, started[i], started[j])
        /\ CoordLess(started[j], started[i])

\* C11: a resolve cycle calls cancelQueued once, before any start: the
\* step from the collecting loops is the cancelQueued step, no start has
\* been issued when it runs, and a start is issued only after it.  The call
\* empties the waiting queue and leaves every transfer in progress, and the
\* cache, as they are.
C11_CancelQueuedOnce ==
    [][/\ pc = "cancelQueued" =>
            /\ started = <<>>
            /\ pc' \in {"cancelQueued", "start"}
            /\ pc' = "start" => /\ waiting' = {}
                                /\ transferring' = transferring
                                /\ cache' = cache
                                /\ started' = <<>>
       /\ pc' = "cancelQueued" => pc \in {"idle", "scan", "cancelQueued"}
       /\ pc' = "start" => pc \in {"cancelQueued", "start"}
       /\ (started' # started /\ started' # <<>>) => pc = "start"]_vars

\* cancelQueued has just run while a transfer was in progress: the queue
\* is empty, the transfer goes on, and the cycle has further coordinates
\* to start.
C11_Witness ==
    /\ pc = "start"
    /\ started = <<>>
    /\ waiting = {}
    /\ transferring # {}
    /\ Len(tilesToRequest) > Cardinality(transferring)

\* The tile of zoom z that contains the tile t, for z up to t's zoom.
AncestorTile(t, z) ==
    Tile((t.row \div FP) \div Pow2(t.zoom - z), (t.col \div FP) \div Pow2(t.zoom - z), z)

\* The zoom levels at which the cache holds the tile containing t.
CachedLevels(t) == { z \in MinZoom..t.zoom : AncestorTile(t, z) \in cache }

\* The finest of them.
NearestCachedLevel(t) == CHOOSE z \in CachedLevels(t) : \A y \in CachedLevels(t) : y <= z

\* C12: a failing fetch caches nothing and leaves the draw thread where it
\* is, with its visible set and what it has composited; and the resolve
\* cycle that follows requests every visible coordinate whose fetch has
\* failed again, and draws the nearest cached tile containing it, if the
\* cache holds one.
C12_FailedRequestedAgain ==
    [][/\ \A coord \in AllTiles :
            (coord \in failed' /\ coord \notin failed) =>
                /\ coord \notin cache'
                /\ cache' = cache
                /\ <<pc, visibleCoords, drawn, coordinatesToDraw>>' =
                       <<pc, visibleCoords, drawn, coordinatesToDraw>>
       /\ ScanStep =>
            \A t \in failedBefore :
                (IsVisible(t) /\ t \notin cache) =>
                    /\ t \in requestedCoordinates'
                    /\ CachedLevels(t) # {} =>
                           AncestorTile(t, NearestCachedLevel(t)) \in coordinatesToDraw']_vars

\* The collecting loops have requested a visible coordinate whose fetch
\* had failed before they ran, and drawn its cached parent in its place.
C12_Witness ==
    /\ pc = "cancelQueued"
    /\ ~disturbed
    /\ \E t \in failedBefore :
          /\ t \in requestedCoordinates
          /\ IsVisible(t)
          /\ t.zoom > MinZoom
          /\ ParentTile(t) \in coordinatesToDraw

\* C13: a start for a coordinate the loader holds a pending fetch for
\* leaves that fetch as it is; the loop goes on to the next coordinate of
\* the sorted request set and returns only when none is left; and the set
\* resolve returns is the draw set of the collecting loops, which no start
\* changes.
C13_PendingSkipped ==
    [][/\ (pc = "start" /\ started' # started /\ started' # <<>>) =>
            /\ tilesToRequest # <<>>
            /\ started' = Append(started, Head(tilesToRequest))
            /\ tilesToRequest' = Tail(tilesToRequest)
            /\ pc' = "start"
            /\ coordinatesToDraw' = coordinatesToDraw
            /\ Head(tilesToRequest) \in Outstanding =>
                   /\ waiting' = waiting
                   /\ transferring' = transferring
                   /\ cache' = cache
       /\ (pc = "start" /\ pc' # "start") =>
            /\ tilesToRequest = <<>>
            /\ pc' = "composite"
            /\ visibleCoords' = coordinatesToDraw]_vars

\* A start has found its coordinate pending, the fetch is still
\* transferring, and a later start of the same cycle has queued a fetch.
C13_Witness ==
    /\ pc = "start"
    /\ \E i, j \in 1..Len(started) :
          /\ i < j
          /\ started[i] \in skipped
          /\ started[i] \in transferring
          /\ started[j] \notin skipped
          /\ started[j] \in waiting

\* C14: a draw that finds the dirty flag clear goes straight to the
\* compositing loop, with the stored visible set, the flag and the loader
\* as they were; cancelQueued and start run only in a draw that found the
\* flag set; and the stored visible set changes only in such a draw, which
\* leaves the flag clear.
C14_CleanDrawReuses ==
    [][/\ (pc = "idle" /\ pc' # "idle" /\ ~coordsDirty) =>
            /\ pc' = "composite"
            /\ visibleCoords' = visibleCoords
            /\ ~coordsDirty'
            /\ started' = started
            /\ <<cache, waiting, transferring>>' = <<cache, waiting, transferring>>
       /\ pc' \in {"scan", "cancelQueued", "start"} => resolved'
       /\ visibleCoords' # visibleCoords => (resolved' /\ ~coordsDirty')]_vars

\* A draw that found the flag clear is about to composite a stored set
\* that holds a tile.
C14_Witness ==
    /\ pc = "composite"
    /\ ~resolved
    /\ ~coordsDirty
    /\ provider
    /\ visibleCoords # {}

\* The visible coordinates the cache holds, and those it does not.
VisibleCached == { t \in AllTiles : IsVisible(t) /\ t \in cache }
VisibleUncached == { t \in AllTiles : IsVisible(t) /\ t \notin cache }

\* The levels of the walk for an uncached t that find no tile: from t's own
\* zoom down to just above the nearest cached level, or down to MinZoom.
UncachedLevels(t) ==
    IF CachedLevels(t) = {} THEN MinZoom..t.zoom
    ELSE (NearestCachedLevel(t) + 1)..t.zoom

\* The request set and the draw set of collecting loops that run on the
\* cache as it is now.
ExpectedRequest ==
    UNION { { AncestorTile(t, z) : z \in UncachedLevels(t) } : t \in VisibleUncached }

ExpectedDraw ==
    VisibleCached \cup
    { AncestorTile(t, NearestCachedLevel(t)) :
        t \in { u \in VisibleUncached : CachedLevels(u) # {} } }

\* C15: the collecting loops, on a cache that stays as it is, request, for every visible uncached
\* coordinate, the tile containing it at each level from its own zoom down
\* to just above the nearest cached one (down to MinZoom if none is
\* cached), and nothing else; they draw the visible cached coordinates and,
\* for every visible uncached one, the nearest cached tile containing it,
\* and nothing else.
C15_NearestAncestor ==
    [][ScanStep =>
        /\ requestedCoordinates' = ExpectedRequest
        /\ coordinatesToDraw' = ExpectedDraw]_vars

\* The loops have met an uncached zoom-2 coordinate whose parent and
\* grandparent are both cached: the parent is drawn, the grandparent is
\* neither drawn nor requested.
C15_Witness ==
    /\ pc = "cancelQueued"
    /\ ~disturbed
    /\ \E t \in requestedCoordinates :
          /\ t.zoom = 2
          /\ IsVisible(t)
          /\ AncestorTile(t, 1) \in coordinatesToDraw
          /\ AncestorTile(t, 0) \in cache
          /\ AncestorTile(t, 0) \notin coordinatesToDraw
          /\ AncestorTile(t, 0) \notin requestedCoordinates

\* C16: every coordinate resolve looks up, draws or starts a fetch for,
\* and so every coordinate the loader and the stored visible set hold, is
\* a tile of the provider's pyramid: integral row and column in
\* [0, 2^zoom), integral zoom in [MinZoom, MaxZoom].
C16_CoordinatesInRange ==
    /\ provider => Lookups \subseteq AllTiles
    /\ coordinatesToDraw \cup requestedCoordinates \cup visibleCoords \subseteq AllTiles
    /\ SeqRange(tilesToRequest) \cup SeqRange(started) \cup SeqRange(drawn) \subseteq AllTiles
    /\ SeqRange(loopTodo) \cup SeqRange(drawTodo) \subseteq AllTiles
    /\ (pc = "scan" /\ walk # <<>>) => ParentCoord(Head(loopTodo), walk[1]) \in AllTiles
    /\ waiting \cup transferring \cup cache \subseteq AllTiles

\* A resolve cycle has issued a start while the center's zoom is outside
\* the provider's range.
C16_Witness ==
    /\ pc = "start"
    /\ started # <<>>
    /\ center.zoom \notin MinZoom..MaxZoom

\* Reached as well: a start in a view centered on the world's corner, and
\* a resolve that found nothing to look up in a view outside the world.
CornerViewStarted == pc = "start" /\ started # <<>> /\ center.row = 0 /\ center.col = 0
OutsideViewResolved == pc = "start" /\ center.row < 0 /\ tilesToRequest = <<>> /\ started = <<>>
BelowRangeStarted == pc = "start" /\ started # <<>> /\ center.zoom < MinZoom

\* The request set of the running cycle, wherever its coordinates are:
\* in the set, in the sorted vector, or already handed to start.
Requested == requestedCoordinates \cup SeqRange(tilesToRequest) \cup SeqRange(started)

\* C17: collecting loops that run on a cache that stays as it is put in
\* the draw set only coordinates the cache holds and in the request set
\* only coordinates it does not hold, so the two sets are disjoint;
\* through cancelQueued, the sort and the start loop both sets stay as
\* collected; every start is for a coordinate of that request set, and the
\* set returned is that draw set.
C17_DrawRequestDisjoint ==
    [][/\ pc = "scan" =>
            /\ (coordinatesToDraw' \ coordinatesToDraw) \subseteq cache
            /\ (requestedCoordinates' \ requestedCoordinates) \cap cache = {}
       /\ ScanStep =>
            /\ coordinatesToDraw' \subseteq cache
            /\ requestedCoordinates' \cap cache = {}
            /\ coordinatesToDraw' \cap requestedCoordinates' = {}
       /\ (pc \in {"cancelQueued", "start"} /\ pc' \in {"cancelQueued", "start"}) =>
            /\ Requested' = Requested
            /\ coordinatesToDraw' = coordinatesToDraw
       /\ (pc = "start" /\ pc' = "composite") => visibleCoords' = coordinatesToDraw]_vars

\* Loops that ran on an unchanging cache have collected a draw set and a
\* request set, both non-empty.
C17_Witness ==
    /\ pc = "cancelQueued"
    /\ ~disturbed
    /\ coordinatesToDraw # {}
    /\ requestedCoordinates # {}

\* C18: between draws, once every notification the loader owes has been
\* delivered, either the dirty flag is set or the stored visible set is
\* the draw set the cache gives now.
C18_NoEventLost ==
    (/\ provider
     /\ life = "alive"
     /\ pc = "idle"
     /\ pendingCached = 0
     /\ pendingUncached = 0
     /\ ~coordsDirty) => visibleCoords = ExpectedDraw

\* C19: the compositing loop starts from every coordinate of the stored
\* visible set with nothing drawn; each pass looks its coordinate up and
\* draws it exactly if the cache holds its tile at that moment, whatever it
\* held when the set was resolved; and the loop ends in the rest of draw.
C19_CompositeRequeries ==
    [][/\ (pc # "composite" /\ pc' = "composite") =>
            /\ drawTodo' = DrawOrder(visibleCoords')
            /\ drawn' = <<>>
       /\ (pc = "composite" /\ drawTodo # <<>> /\ drawTodo' # drawTodo) =>
            /\ drawTodo' = Tail(drawTodo)
            /\ drawn' = IF Head(drawTodo) \in cache
                        THEN Append(drawn, Head(drawTodo))
                        ELSE drawn
       /\ (pc = "composite" /\ pc' # "composite") => (pc' = "blit" /\ drawTodo' = <<>>)
       /\ (drawn' # drawn /\ drawn' # <<>>) => pc = "composite"]_vars

\* A draw has composited a tile and skipped a coordinate of the visible
\* set that the cache had evicted since the set was resolved.
C19_Witness ==
    /\ pc = "blit"
    /\ drawn # <<>>
    /\ \E t \in visibleCoords : t \notin SeqRange(drawn) /\ t \notin cache

\* C20: with draw called repeatedly and every fetch succeeding, from some
\* point on the stored visible set holds every coordinate of the visible
\* rectangle and every draw ends with the dirty flag clear.
C20_Converges ==
    <>[](/\ LoopCoordinates \subseteq visibleCoords
         /\ pc \in {"composite", "blit"} => ~coordsDirty)
====
